---- MODULE Spec2Model ----
(***************************************************************************)
(* Model of soulstruct's MSGDirectory (text/base/msg_directory.py): the    *)
(* two MSGBND archives of a language folder ('item' and 'menu'), the       *)
(* merged text categories built from them, and save(), which splits the    *)
(* categories back into FMG archive entries and writes both archives.      *)
(*                                                                         *)
(* It also models DarkSoulsGameParameters and DrawParamBlock               *)
(* (params/dark_souls_params.py): the GameParam archive, the tables        *)
(* decoded from its entries, update_bnd(), pickle() and save(), and the    *)
(* schema set that each construction requests.                             *)
(*                                                                         *)
(* An FMG name is a sequence of tokens, <<"Good", "Names", "Patch">> for   *)
(* 'GoodNamesPatch', so that endswith("Patch"), name[:-5] and              *)
(* name + "Patch" are computed on the name as the code computes them.      *)
(***************************************************************************)
EXTENDS Integers, Sequences, FiniteSets, TLC

\* ---------------------------------------------------------------- bounds
MaxIndex == 2       \* text indices are 1..MaxIndex
MaxEntries == 2     \* FMG entries stored in the two archives together
MaxEdits == 1       \* caller edits of category text per run

Indices == 1..MaxIndex
Texts == {"", "a", "b"}

\* ------------------------------------------------------------ FMG names
PATCH == "Patch"

endswith_Patch(name) == Len(name) > 0 /\ name[Len(name)] = PATCH

strip_Patch(name) == SubSeq(name, 1, Len(name) - 1)

plus_Patch(name) == name \o <<PATCH>>

\* ID <-> name table of the game subclass (_MSGBND_INDEX_NAMES is None in
\* the base class); every other ID is unexpected.
MSGBND_INDEX_NAMES ==
    (1 :> <<"Good", "Names">>) @@ (2 :> <<"Good", "Names", "Patch">>) @@
    (3 :> <<"EventText">>) @@ (4 :> <<"EventText", "Patch">>) @@
    (5 :> <<"Good", "Summaries">>) @@ (6 :> <<"Good", "Descriptions">>)

UnexpectedIds == {9}

has_name(name) == \E id \in DOMAIN MSGBND_INDEX_NAMES : MSGBND_INDEX_NAMES[id] = name

index_of_name(name) == CHOOSE id \in DOMAIN MSGBND_INDEX_NAMES : MSGBND_INDEX_NAMES[id] = name

CAN_MERGE_PATCH ==
    { <<t, k, PATCH>> : t \in {"Weapon", "Armor", "Ring", "Good"},
                        k \in {"Names", "Summaries", "Descriptions"} }
    \cup { <<"Spell", "Names", PATCH>>, <<"Spell", "Descriptions", PATCH>>,
           <<"NPC", "Names", PATCH>>, <<"Place", "Names", PATCH>> }

CANNOT_MERGE_PATCH ==
    { <<"EventText">>, <<"MenuDialogs">>, <<"SoapstoneMessages">>, <<"MenuHelpSnippets">>,
      <<"KeyGuide">>, <<"MenuText_Other">>, <<"MenuText_Common">> }

\* ------------------------------------------------------------ FMG codec
\* An FMG's packed data is the list of its (index, text) pairs by ascending index.
RECURSIVE Ascending(_)
Ascending(S) ==
    IF S = {} THEN <<>>
    ELSE LET m == CHOOSE x \in S : \A y \in S : x <= y
         IN <<m>> \o Ascending(S \ {m})

FMG_pack(entries) ==
    LET ks == Ascending(DOMAIN entries)
    IN [n \in 1..Len(ks) |-> <<ks[n], entries[ks[n]]>>]

FMG_entries(data) ==
    LET ks == {data[n][1] : n \in 1..Len(data)}
    IN [i \in ks |-> LET n == CHOOSE n \in 1..Len(data) : data[n][1] = i IN data[n][2]]

EmptyDict == [i \in {} |-> ""]

\* ------------------------------------------------------------- archives
\* A BND: its DCX signal and its ordered entries, each an ID and FMG data.
entry_ids(bnd) == {bnd.entries[n].id : n \in 1..Len(bnd.entries)}

entries_by_id(bnd, id) ==
    bnd.entries[CHOOSE n \in 1..Len(bnd.entries) : bnd.entries[n].id = id]

\* remove_entry for every ID of a set.
remove_entries(bnd, ids) ==
    [bnd EXCEPT !.entries = SelectSeq(@, LAMBDA e : e.id \notin ids)]

set_entry_data(bnd, id, data) ==
    [bnd EXCEPT !.entries = [n \in 1..Len(@) |-> IF @[n].id = id THEN [@[n] EXCEPT !.data = data] ELSE @[n]]]

NoBND == [dcx |-> FALSE, entries |-> <<>>]

\* ---------------------------------------------------- language folders
\* Tables as found in a game folder: a base table holds 'a' texts and a
\* Patch table 'b' texts; a table holds one index or all of them.
StoredText(id) ==
    IF id \in DOMAIN MSGBND_INDEX_NAMES /\ endswith_Patch(MSGBND_INDEX_NAMES[id]) THEN "b" ELSE "a"

StoredIndexSets == { {i} : i \in Indices } \cup { Indices }

\* The IDs of the tables that are a Patch table or have one in the ID table.
PatchPairIds ==
    { id \in DOMAIN MSGBND_INDEX_NAMES :
        endswith_Patch(MSGBND_INDEX_NAMES[id]) \/ has_name(plus_Patch(MSGBND_INDEX_NAMES[id])) }

StoredEntries ==
    { [id |-> id, data |-> FMG_pack([i \in S |-> StoredText(id)])] :
        id \in PatchPairIds \cup UnexpectedIds, S \in StoredIndexSets }

\* Every table is stored once in the folder: entry IDs are unique over both archives.
\* A folder is a list of entries cut in two: the item archive, then the menu archive.
EntryLists ==
    UNION { { s \in [1..n -> StoredEntries] : \A i, j \in 1..n : i # j => s[i].id # s[j].id } :
            n \in 0..MaxEntries }

Folder(s, k, d1, d2) ==
    [item |-> [dcx |-> d1, entries |-> SubSeq(s, 1, k)],
     menu |-> [dcx |-> d2, entries |-> SubSeq(s, k + 1, Len(s))]]

\* The lists that hold one base table and its Patch table, in either order.
PairLists ==
    { s \in [1..2 -> StoredEntries] :
        \E id \in DOMAIN MSGBND_INDEX_NAMES :
            /\ endswith_Patch(MSGBND_INDEX_NAMES[id])
            /\ {s[1].id, s[2].id} = {id, index_of_name(strip_Patch(MSGBND_INDEX_NAMES[id]))} }

\* ---------------------------------------------------------------- state
VARIABLES
    disk,           \* the two MSGBND files of the language folder
    pc,             \* "start": not constructed, "ready": constructed, "failed": __init__ raised
    item_msgbnd,    \* self.item_msgbnd
    menu_msgbnd,    \* self.menu_msgbnd
    categories,     \* self.categories: FMG name -> (index -> text)
    is_patch,       \* self._is_patch: set of <<FMG name, index>>
    is_menu,        \* self._is_menu: FMG name -> BOOLEAN
    edits,          \* number of caller edits so far
    last,           \* the last call: its name, arguments, what it raised, what it wrote
    param_disk,     \* the GameParam archive file and the pickle file beside it
    param_pc,       \* "start", "ready" or "failed", of a DarkSoulsGameParameters
    game_param_bnd, \* self._game_param_bnd
    param_data,     \* self._data: entry path -> ParamTable
    paramdef_bnd,   \* self.paramdef_bnd: the dialect of the schema set in use
    param_edits,    \* table edits the caller may still make in this run
    param_last,     \* the last call on the parameters
    paramdef_cache, \* the dialects whose schema set the process holds
    paramdef_built, \* dialect -> number of times its schema set was constructed
    paramdef_requests,  \* dialect -> number of PARAMDEF_BND(dialect) calls
    draw_data,      \* self._data of the last DrawParamBlock: base name -> its two slots
    draw_opens,     \* number of DrawParamBlock constructions so far
    draw_last       \* the last DrawParamBlock construction: its arguments, what it raised

text_vars == <<disk, pc, item_msgbnd, menu_msgbnd, categories, is_patch, is_menu, edits, last>>

schema_vars == <<paramdef_cache, paramdef_built, paramdef_requests>>

draw_vars == <<draw_data, draw_opens, draw_last>>

param_vars ==
    <<param_disk, param_pc, game_param_bnd, param_data, paramdef_bnd, param_edits, param_last,
      schema_vars, draw_vars>>

vars == <<text_vars, param_vars>>

NoDict == [n \in {} |-> EmptyDict]
NoFlags == [n \in {} |-> FALSE]

NoCall == [op |-> "none", raised |-> "none", separate_patch |-> FALSE, wrote |-> {}]

\* ------------------------------------------------------------- __init__
NewSelf == [categories |-> NoDict, is_patch |-> {}, is_menu |-> NoFlags, raised |-> "none"]

dict_update(old, new) == new @@ old

\* load_fmg_entry that files a Patch FMG under its own name instead of merging it.
load_fmg_entry_unmerged(self, entry, menu) ==
    IF entry.id \notin DOMAIN MSGBND_INDEX_NAMES
    THEN [self EXCEPT !.raised = "ValueError"]
    ELSE LET new_name == MSGBND_INDEX_NAMES[entry.id]
             fmg == FMG_entries(entry.data)
             old == IF new_name \in DOMAIN self.categories THEN self.categories[new_name] ELSE EmptyDict
         IN [self EXCEPT
                !.is_menu = (new_name :> menu) @@ @,
                !.is_patch = IF endswith_Patch(new_name)
                             THEN @ \cup {<<strip_Patch(new_name), i>> : i \in DOMAIN fmg} ELSE @,
                !.categories = (new_name :> dict_update(old, fmg)) @@ @]

\* load_fmg_entry that passes over an entry with an unexpected ID instead of raising.
load_fmg_entry_skipping(self, entry, menu) ==
    IF entry.id \notin DOMAIN MSGBND_INDEX_NAMES
    THEN self
    ELSE LET new_name == MSGBND_INDEX_NAMES[entry.id]
             fmg == FMG_entries(entry.data)
             patch == endswith_Patch(new_name)
             cat == IF patch THEN strip_Patch(new_name) ELSE new_name
             old == IF cat \in DOMAIN self.categories THEN self.categories[cat] ELSE EmptyDict
         IN [self EXCEPT
                !.is_menu = (new_name :> menu) @@ @,
                !.is_patch = IF patch THEN @ \cup {<<cat, i>> : i \in DOMAIN fmg} ELSE @,
                !.categories = (cat :> dict_update(old, fmg)) @@ @]

\* One iteration of the loop of load_fmg_entries_from_bnd.
load_fmg_entry(self, entry, menu) ==
    IF entry.id \notin DOMAIN MSGBND_INDEX_NAMES
    THEN [self EXCEPT !.raised = "ValueError"]
    ELSE LET new_name == MSGBND_INDEX_NAMES[entry.id]
             fmg == FMG_entries(entry.data)
             patch == endswith_Patch(new_name)
             cat == IF patch THEN strip_Patch(new_name) ELSE new_name
             old == IF cat \in DOMAIN self.categories THEN self.categories[cat] ELSE EmptyDict
         IN [self EXCEPT
                !.is_menu = (new_name :> menu) @@ @,
                !.is_patch = IF patch THEN @ \cup {<<cat, i>> : i \in DOMAIN fmg} ELSE @,
                !.categories = (cat :> dict_update(old, fmg)) @@ @]

RECURSIVE load_fmg_entries_from_bnd(_, _, _, _)
load_fmg_entries_from_bnd(self, msgbnd, n, menu) ==
    IF self.raised # "none" \/ n > Len(msgbnd.entries) THEN self
    ELSE load_fmg_entries_from_bnd(load_fmg_entry(self, msgbnd.entries[n], menu), msgbnd, n + 1, menu)

\* The DCX checks with the second one left out.
dcx_mismatch_first_only(item, menu) == item.dcx /\ ~menu.dcx

\* The DCX checks of __init__.
dcx_mismatch(item, menu) == (item.dcx /\ ~menu.dcx) \/ (~item.dcx /\ menu.dcx)

init_self(item, menu) ==
    IF dcx_mismatch(item, menu) THEN [NewSelf EXCEPT !.raised = "ValueError"]
    ELSE load_fmg_entries_from_bnd(load_fmg_entries_from_bnd(NewSelf, item, 1, FALSE), menu, 1, TRUE)

Open ==
    /\ pc = "start"
    /\ LET self == init_self(disk.item, disk.menu)
       IN IF self.raised # "none"
          THEN /\ pc' = "failed"
               /\ UNCHANGED <<item_msgbnd, menu_msgbnd, categories, is_patch, is_menu>>
               /\ last' = [NoCall EXCEPT !.op = "init", !.raised = self.raised]
          ELSE /\ pc' = "ready"
               /\ item_msgbnd' = disk.item
               /\ menu_msgbnd' = disk.menu
               /\ categories' = self.categories
               /\ is_patch' = self.is_patch
               /\ is_menu' = self.is_menu
               /\ last' = [NoCall EXCEPT !.op = "init"]
    /\ UNCHANGED <<disk, edits>>
    /\ UNCHANGED param_vars

\* ------------------------------------------------------- item text
MaxItemCalls == 2   \* item text calls per run

\* The item types a caller passes, in lower case as item_type.lower() yields them.
ItemTypes == {"good", "consumable", "ring", "item"}

resolve_item_type(item_type) ==
    CASE item_type \in {"good", "consumable"} -> "Good"
      [] item_type \in {"ring", "accessory"} -> "Ring"
      [] item_type \in {"weapon", "shield"} -> "Weapon"
      [] item_type \in {"armour", "armor", "protector"} -> "Armor"
      [] OTHER -> "ValueError"

\* self.categories[fmg_name][index] = text
set_category_text(cats, fmg_name, index, text) ==
    [cats EXCEPT ![fmg_name] = (index :> text) @@ @]

\* delete_item_text that deletes the three keys instead of blanking their texts.
delete_item_text_removing(cats, index, item_type) ==
    LET item_fmg == resolve_item_type(item_type)
        drop(c, name) == [c EXCEPT ![name] = [i \in DOMAIN @ \ {index} |-> @[i]]]
    IN IF item_fmg = "ValueError" THEN [categories |-> cats, raised |-> "ValueError"]
       ELSE IF <<item_fmg, "Names">> \notin DOMAIN cats THEN [categories |-> cats, raised |-> "KeyError"]
       ELSE IF index \notin DOMAIN cats[<<item_fmg, "Names">>] THEN [categories |-> cats, raised |-> "ValueError"]
       ELSE [categories |-> drop(drop(drop(cats, <<item_fmg, "Names">>), <<item_fmg, "Summaries">>),
                                 <<item_fmg, "Descriptions">>),
             raised |-> "none"]

\* delete_item_text: the categories it leaves and what it raises. The three
\* assignments run in order, so a missing category raises after the ones before it.
delete_item_text(cats, index, item_type) ==
    LET item_fmg == resolve_item_type(item_type)
        names == <<item_fmg, "Names">>
        summaries == <<item_fmg, "Summaries">>
        descriptions == <<item_fmg, "Descriptions">>
    IN IF item_fmg = "ValueError" THEN [categories |-> cats, raised |-> "ValueError"]
       ELSE IF names \notin DOMAIN cats THEN [categories |-> cats, raised |-> "KeyError"]
       ELSE IF index \notin DOMAIN cats[names] THEN [categories |-> cats, raised |-> "ValueError"]
       ELSE LET c1 == set_category_text(cats, names, index, "")
            IN IF summaries \notin DOMAIN cats THEN [categories |-> c1, raised |-> "KeyError"]
               ELSE LET c2 == set_category_text(c1, summaries, index, "")
                    IN IF descriptions \notin DOMAIN cats THEN [categories |-> c2, raised |-> "KeyError"]
                       ELSE [categories |-> set_category_text(c2, descriptions, index, ""),
                             raised |-> "none"]

DeleteItemText(index, item_type) ==
    /\ pc = "ready"
    /\ edits < MaxItemCalls
    /\ \E r \in {delete_item_text(categories, index, item_type)} :
          /\ categories' = r.categories
          /\ last' = [op |-> "delete_item_text", raised |-> r.raised, index |-> index,
                      item_type |-> item_type, separate_patch |-> FALSE, wrote |-> {}]
    /\ edits' = edits + 1
    /\ UNCHANGED <<disk, pc, item_msgbnd, menu_msgbnd, is_patch, is_menu>>
    /\ UNCHANGED param_vars

\* add_item_text that does not look for the index in Names.
add_item_text_overwriting(cats, index, item_type, name, summary, description) ==
    LET item_fmg == resolve_item_type(item_type)
    IN IF item_fmg = "ValueError" THEN [categories |-> cats, raised |-> "ValueError"]
       ELSE IF {<<item_fmg, "Names">>, <<item_fmg, "Summaries">>, <<item_fmg, "Descriptions">>}
                   \subseteq DOMAIN cats
            THEN [categories |-> set_category_text(set_category_text(set_category_text(
                                     cats, <<item_fmg, "Names">>, index, name),
                                     <<item_fmg, "Summaries">>, index, summary),
                                     <<item_fmg, "Descriptions">>, index, description),
                  raised |-> "none"]
       ELSE [categories |-> cats, raised |-> "KeyError"]

\* add_item_text: the categories it leaves and what it raises.
add_item_text(cats, index, item_type, name, summary, description) ==
    LET item_fmg == resolve_item_type(item_type)
        names == <<item_fmg, "Names">>
        summaries == <<item_fmg, "Summaries">>
        descriptions == <<item_fmg, "Descriptions">>
    IN IF item_fmg = "ValueError" THEN [categories |-> cats, raised |-> "ValueError"]
       ELSE IF names \notin DOMAIN cats THEN [categories |-> cats, raised |-> "KeyError"]
       ELSE IF index \in DOMAIN cats[names] THEN [categories |-> cats, raised |-> "ValueError"]
       ELSE LET c1 == set_category_text(cats, names, index, name)
            IN IF summaries \notin DOMAIN cats THEN [categories |-> c1, raised |-> "KeyError"]
               ELSE LET c2 == set_category_text(c1, summaries, index, summary)
                    IN IF descriptions \notin DOMAIN cats THEN [categories |-> c2, raised |-> "KeyError"]
                       ELSE [categories |-> set_category_text(c2, descriptions, index, description),
                             raised |-> "none"]

AddItemText(index, item_type, name, summary, description) ==
    /\ pc = "ready"
    /\ edits < MaxItemCalls
    /\ \E r \in {add_item_text(categories, index, item_type, name, summary, description)} :
          /\ categories' = r.categories
          /\ last' = [op |-> "add_item_text", raised |-> r.raised, index |-> index,
                      item_type |-> item_type, name |-> name, summary |-> summary,
                      description |-> description, separate_patch |-> FALSE, wrote |-> {}]
    /\ edits' = edits + 1
    /\ UNCHANGED <<disk, pc, item_msgbnd, menu_msgbnd, is_patch, is_menu>>
    /\ UNCHANGED param_vars

\* The text_dict arguments of change_item_text: the keys it holds; every text is 'b'.
TextDictKeys == { {"name"}, {"summary", "description"}, {"name", "summary", "description"} }

\* change_item_text for one index: each key of text_dict is assigned in turn
\* to self[item_fmg + kind + patch], and __getitem__ raises AttributeError for
\* a category that does not exist, after the assignments made before it.
RECURSIVE change_item_kinds(_, _, _, _, _, _)
change_item_kinds(cats, kinds, keys, index, item_fmg, patch) ==
    IF kinds = <<>> THEN [categories |-> cats, raised |-> "none"]
    ELSE LET kind == Head(kinds)
             fmg_name == IF patch THEN <<item_fmg, kind.fmg, PATCH>> ELSE <<item_fmg, kind.fmg>>
         IN IF kind.key \notin keys THEN change_item_kinds(cats, Tail(kinds), keys, index, item_fmg, patch)
            ELSE IF fmg_name \notin DOMAIN cats THEN [categories |-> cats, raised |-> "AttributeError"]
            ELSE change_item_kinds(set_category_text(cats, fmg_name, index, "b"),
                                   Tail(kinds), keys, index, item_fmg, patch)

change_item_text(cats, keys, index, item_type, patch) ==
    LET item_fmg == resolve_item_type(item_type)
    IN IF item_fmg = "ValueError" THEN [categories |-> cats, raised |-> "ValueError"]
       ELSE IF <<item_fmg, "Names">> \notin DOMAIN cats THEN [categories |-> cats, raised |-> "AttributeError"]
       ELSE change_item_kinds(cats, <<[key |-> "name", fmg |-> "Names"],
                                      [key |-> "summary", fmg |-> "Summaries"],
                                      [key |-> "description", fmg |-> "Descriptions"]>>,
                              keys, index, item_fmg, patch)

ChangeItemText(keys, index, item_type, patch) ==
    /\ pc = "ready"
    /\ edits < MaxItemCalls
    /\ \E r \in {change_item_text(categories, keys, index, item_type, patch)} :
          /\ categories' = r.categories
          /\ last' = [op |-> "change_item_text", raised |-> r.raised, index |-> index,
                      item_type |-> item_type, keys |-> keys, patch |-> patch,
                      separate_patch |-> FALSE, wrote |-> {}]
    /\ edits' = edits + 1
    /\ UNCHANGED <<disk, pc, item_msgbnd, menu_msgbnd, is_patch, is_menu>>
    /\ UNCHANGED param_vars

\* The dictionary get_all_item_text returns, with empty texts.
NoItemText == [name |-> "", summary |-> "", description |-> ""]

\* get_all_item_text that takes an item whose name is empty for a missing one.
get_all_item_text_by_name(cats, index, item_type) ==
    LET item_fmg == resolve_item_type(item_type)
    IN IF item_fmg = "ValueError" THEN [raised |-> "ValueError", none |-> TRUE, text |-> NoItemText]
       ELSE IF <<item_fmg, "Names">> \notin DOMAIN cats THEN [raised |-> "KeyError", none |-> TRUE, text |-> NoItemText]
       ELSE IF index \notin DOMAIN cats[<<item_fmg, "Names">>] \/ cats[<<item_fmg, "Names">>][index] = ""
            THEN [raised |-> "none", none |-> TRUE, text |-> NoItemText]
       ELSE IF \E k \in {"Summaries", "Descriptions"} :
                  <<item_fmg, k>> \notin DOMAIN cats \/ index \notin DOMAIN cats[<<item_fmg, k>>]
            THEN [raised |-> "KeyError", none |-> TRUE, text |-> NoItemText]
       ELSE [raised |-> "none", none |-> FALSE,
             text |-> [name |-> cats[<<item_fmg, "Names">>][index],
                       summary |-> cats[<<item_fmg, "Summaries">>][index],
                       description |-> cats[<<item_fmg, "Descriptions">>][index]]]

\* get_all_item_text: None (none is TRUE, and text is to be ignored), the
\* dictionary of the three texts, or what it raises.
get_all_item_text(cats, index, item_type) ==
    LET item_fmg == resolve_item_type(item_type)
    IN IF item_fmg = "ValueError" THEN [raised |-> "ValueError", none |-> TRUE, text |-> NoItemText]
       ELSE IF <<item_fmg, "Names">> \notin DOMAIN cats THEN [raised |-> "KeyError", none |-> TRUE, text |-> NoItemText]
       ELSE IF index \notin DOMAIN cats[<<item_fmg, "Names">>] THEN [raised |-> "none", none |-> TRUE, text |-> NoItemText]
       ELSE IF \E k \in {"Summaries", "Descriptions"} :
                  <<item_fmg, k>> \notin DOMAIN cats \/ index \notin DOMAIN cats[<<item_fmg, k>>]
            THEN [raised |-> "KeyError", none |-> TRUE, text |-> NoItemText]
       ELSE [raised |-> "none", none |-> FALSE,
             text |-> [name |-> cats[<<item_fmg, "Names">>][index],
                       summary |-> cats[<<item_fmg, "Summaries">>][index],
                       description |-> cats[<<item_fmg, "Descriptions">>][index]]]

GetAllItemText(index, item_type) ==
    /\ pc = "ready"
    /\ edits < MaxItemCalls
    /\ \E r \in {get_all_item_text(categories, index, item_type)} :
          last' = [op |-> "get_all_item_text", raised |-> r.raised, none |-> r.none, text |-> r.text,
                   index |-> index,
                   item_type |-> item_type, separate_patch |-> FALSE, wrote |-> {}]
    /\ edits' = edits + 1
    /\ UNCHANGED <<disk, pc, item_msgbnd, menu_msgbnd, categories, is_patch, is_menu>>
    /\ UNCHANGED param_vars

\* find(search_string, replace_with, text_category). A text is one letter or
\* empty, so 'search_string in text' for a letter is equality and
\* text.replace(search_string, replace_with) is replace_with; replace_with
\* "None" only searches. text_category <<>> is None: every category.
find(cats, search_string, replace_with, text_category) ==
    IF text_category # <<>> /\ text_category \notin DOMAIN cats
    THEN [categories |-> cats, raised |-> "AttributeError"]
    ELSE LET searched == IF text_category = <<>> THEN DOMAIN cats \ {<<"Subtitles">>} ELSE {text_category}
         IN [categories |->
                [c \in DOMAIN cats |->
                    IF c \in searched /\ replace_with # "None"
                    THEN [i \in DOMAIN cats[c] |-> IF cats[c][i] = search_string THEN replace_with ELSE cats[c][i]]
                    ELSE cats[c]],
             raised |-> "none"]

Find(search_string, replace_with, text_category) ==
    /\ pc = "ready"
    /\ edits < MaxItemCalls
    /\ \E r \in {find(categories, search_string, replace_with, text_category)} :
          /\ categories' = r.categories
          /\ last' = [op |-> "find", raised |-> r.raised, separate_patch |-> FALSE, wrote |-> {}]
    /\ edits' = edits + 1
    /\ UNCHANGED <<disk, pc, item_msgbnd, menu_msgbnd, is_patch, is_menu>>
    /\ UNCHANGED param_vars

\* ------------------------------------------------- editing a category
\* The caller's  msg_directory[text_category][index] = text  on the
\* dictionary that __getitem__ returns.
SetText(text_category, index, text) ==
    /\ pc = "ready"
    /\ edits < MaxEdits
    /\ text_category \in DOMAIN categories
    /\ categories' = [categories EXCEPT ![text_category] = (index :> text) @@ @]
    /\ edits' = edits + 1
    /\ last' = [NoCall EXCEPT !.op = "edit"]
    /\ UNCHANGED <<disk, pc, item_msgbnd, menu_msgbnd, is_patch, is_menu>>
    /\ UNCHANGED param_vars

\* ----------------------------------------------------------------- save
\* remove_merged_patch that removes every Patch entry, the never-merge ones too.
remove_every_patch(msgbnd, menu, separate_patch) ==
    IF separate_patch THEN msgbnd
    ELSE remove_entries(msgbnd, { index_of_name(p) :
                                    p \in { q \in DOMAIN is_menu : endswith_Patch(q) /\ is_menu[q] = menu } })

\* remove_merged_patch that removes nothing.
remove_no_patch(msgbnd, menu, separate_patch) == msgbnd

\* The loop 'for patch_fmg_name in _CAN_MERGE_PATCH' on one of the two copies
\* (menu tells which): the Patch entries that will be merged are removed.
remove_merged_patch(msgbnd, menu, separate_patch) ==
    IF separate_patch THEN msgbnd
    ELSE remove_entries(msgbnd, { index_of_name(p) :
                                    p \in { q \in CAN_MERGE_PATCH : q \in DOMAIN is_menu /\ is_menu[q] = menu } })

\* fmg_entries_patch of one category: the non-empty texts recorded in _is_patch.
fmg_entries_patch(fmg_name, fmg_entries, separate_patch) ==
    IF separate_patch \/ fmg_name \in CANNOT_MERGE_PATCH
    THEN LET ks == { i \in DOMAIN fmg_entries : <<fmg_name, i>> \in is_patch /\ fmg_entries[i] # "" }
         IN [i \in ks |-> fmg_entries[i]]
    ELSE EmptyDict

\* fmg_entries_main of one category: what is left after the Patch indices are popped.
fmg_entries_main(fmg_name, fmg_entries, separate_patch) ==
    IF separate_patch \/ fmg_name \in CANNOT_MERGE_PATCH
    THEN LET ks == { i \in DOMAIN fmg_entries : <<fmg_name, i>> \notin is_patch }
         IN [i \in ks |-> fmg_entries[i]]
    ELSE fmg_entries

\* new is the pair of archive copies being packed, with what has been raised so far.
update_msgbnd_entry(new, menu, fmg_name, fmg_entries) ==
    IF new.raised # "none" THEN new
    ELSE IF ~has_name(fmg_name) THEN [new EXCEPT !.raised = "KeyError"]
    ELSE LET bnd_entry_id == index_of_name(fmg_name)
             msgbnd == IF menu THEN new.menu ELSE new.item
         IN IF bnd_entry_id \notin entry_ids(msgbnd) THEN [new EXCEPT !.raised = "KeyError"]
            ELSE IF menu THEN [new EXCEPT !.menu = set_entry_data(@, bnd_entry_id, FMG_pack(fmg_entries))]
                 ELSE [new EXCEPT !.item = set_entry_data(@, bnd_entry_id, FMG_pack(fmg_entries))]

\* One iteration of the loop over self.categories.items(): the Patch entry is
\* given fmg_entries_patch when that is not empty, and the main entry is given
\* fmg_entries, the whole category (fmg_entries_main is computed and not used).
save_category(new, fmg_name, separate_patch) ==
    LET fmg_entries == categories[fmg_name]
        patch == fmg_entries_patch(fmg_name, fmg_entries, separate_patch)
        patch_name == plus_Patch(fmg_name)
        new1 == IF DOMAIN patch = {} \/ new.raised # "none" THEN new
                ELSE IF patch_name \notin DOMAIN is_menu THEN [new EXCEPT !.raised = "KeyError"]
                ELSE update_msgbnd_entry(new, is_menu[patch_name], patch_name, patch)
    IN IF new1.raised # "none" THEN new1
       ELSE IF fmg_name \notin DOMAIN is_menu THEN [new1 EXCEPT !.raised = "KeyError"]
       ELSE update_msgbnd_entry(new1, is_menu[fmg_name], fmg_name, fmg_entries)

RECURSIVE save_categories(_, _, _)
save_categories(new, names, separate_patch) ==
    IF names = {} \/ new.raised # "none" THEN new
    ELSE LET fmg_name == CHOOSE n \in names : TRUE
         IN save_categories(save_category(new, fmg_name, separate_patch), names \ {fmg_name}, separate_patch)

\* Everything save does before it writes: the two copies, fully packed.
packed_msgbnds(separate_patch) ==
    save_categories([item |-> remove_merged_patch(item_msgbnd, FALSE, separate_patch),
                     menu |-> remove_merged_patch(menu_msgbnd, TRUE, separate_patch),
                     raised |-> "none"],
                    DOMAIN categories, separate_patch)

\* The two writes, item first; io says which of them the file system refuses.
IOOutcomes == {"ok", "item_fails", "menu_fails"}

write_msgbnds(folder, new, io) ==
    IF io = "item_fails" THEN [disk |-> folder, wrote |-> {}, raised |-> "OSError"]
    ELSE IF io = "menu_fails"
         THEN [disk |-> [folder EXCEPT !.item = new.item], wrote |-> {"item"}, raised |-> "OSError"]
         ELSE [disk |-> [item |-> new.item, menu |-> new.menu], wrote |-> {"item", "menu"}, raised |-> "none"]

\* updated_msgbnd that takes the new archive before the writes are known to have succeeded.
updated_msgbnd_early(old_msgbnd, new_msgbnd, raised) == new_msgbnd

\* 'Update BNDs only after successful write.'
updated_msgbnd(old_msgbnd, new_msgbnd, raised) ==
    IF raised = "none" THEN new_msgbnd ELSE old_msgbnd

\* categories_after_save when the Patch indices are popped from the
\* category's own dictionary.
categories_after_save_popped(cats, separate_patch) ==
    [fmg_name \in DOMAIN cats |-> fmg_entries_main(fmg_name, cats[fmg_name], separate_patch)]

\* self.categories when save returns or raises: the loop pops the Patch
\* indices from fmg_entries_main, a copy of the category's dictionary, and
\* assigns to no key of self.categories.
categories_after_save(cats, separate_patch) == cats

Save(separate_patch, io) ==
    /\ pc = "ready"
    /\ \E new \in {packed_msgbnds(separate_patch)} :
          IF new.raised # "none"
          THEN /\ last' = [op |-> "save", raised |-> new.raised, separate_patch |-> separate_patch, wrote |-> {}]
               /\ UNCHANGED <<disk, item_msgbnd, menu_msgbnd>>
          ELSE \E w \in {write_msgbnds(disk, new, io)} :
                  /\ disk' = w.disk
                  /\ item_msgbnd' = updated_msgbnd(item_msgbnd, new.item, w.raised)
                  /\ menu_msgbnd' = updated_msgbnd(menu_msgbnd, new.menu, w.raised)
                  /\ last' = [op |-> "save", raised |-> w.raised, separate_patch |-> separate_patch,
                              wrote |-> w.wrote]
    /\ categories' = categories_after_save(categories, separate_patch)
    /\ UNCHANGED <<pc, is_patch, is_menu, edits>>
    /\ UNCHANGED param_vars

\* ------------------------------------------------------------ ParamTable
MaxRows == 3        \* row IDs are 1..MaxRows

RowIds == 1..MaxRows

\* The bytes of a table: a header with the param type and the declared row
\* count, then the row records in stored order.
table_bytes(param_type, row_count, rows) ==
    [param_type |-> param_type, row_count |-> row_count, rows |-> rows]

Dialects == {"ptd", "dsr"}

KnownParamTypes == {"SP_EFFECT_PARAM_ST"}

\* PARAMDEF_BND that constructs the schema set on every call.
PARAMDEF_BND_uncached(dialect, cache, built) ==
    [paramdef |-> [dialect |-> dialect, param_types |-> KnownParamTypes],
     cache |-> cache \cup {dialect},
     built |-> [built EXCEPT ![dialect] = @ + 1]]

\* PARAMDEF_BND(dialect) as a read-through cache: the schema set of a dialect
\* is constructed, in one step, when the process does not hold it yet.
PARAMDEF_BND(dialect, cache, built) ==
    [paramdef |-> [dialect |-> dialect, param_types |-> KnownParamTypes],
     cache |-> cache \cup {dialect},
     built |-> IF dialect \in cache THEN built ELSE [built EXCEPT ![dialect] = @ + 1]]

NoTable == [param_type |-> "", dialect |-> "", rows |-> <<>>]

\* ParamTable_open that does not read the last row record.
ParamTable_open_short(data, paramdef) ==
    IF data.param_type \notin paramdef.param_types THEN [raised |-> "UnknownSchema", table |-> NoTable]
    ELSE IF data.row_count > Len(data.rows) THEN [raised |-> "RowCountMismatch", table |-> NoTable]
    ELSE [raised |-> "none",
          table |-> [param_type |-> data.param_type, dialect |-> paramdef.dialect,
                     rows |-> SubSeq(data.rows, 1, data.row_count - 1)]]

\* ParamTable(entry.data, paramdef_bnd): the rows are kept in the order read.
ParamTable_open(data, paramdef) ==
    IF data.param_type \notin paramdef.param_types THEN [raised |-> "UnknownSchema", table |-> NoTable]
    ELSE IF data.row_count > Len(data.rows) THEN [raised |-> "RowCountMismatch", table |-> NoTable]
    ELSE [raised |-> "none",
          table |-> [param_type |-> data.param_type, dialect |-> paramdef.dialect,
                     rows |-> SubSeq(data.rows, 1, data.row_count)]]

row_ids(rows) == { rows[n].row_id : n \in 1..Len(rows) }

RECURSIVE sorted_rows(_)
sorted_rows(rows) ==
    IF rows = <<>> THEN <<>>
    ELSE LET m == CHOOSE n \in 1..Len(rows) : \A k \in 1..Len(rows) : rows[n].row_id <= rows[k].row_id
         IN <<rows[m]>> \o sorted_rows(SubSeq(rows, 1, m - 1) \o SubSeq(rows, m + 1, Len(rows)))

\* pack that writes the rows in the order the table holds them.
ParamTable_pack_unsorted(table) == table_bytes(table.param_type, Len(table.rows), table.rows)

ParamTable_pack(table) == table_bytes(table.param_type, Len(table.rows), sorted_rows(table.rows))

\* insert that appends the row without looking for its ID.
ParamTable_insert_unchecked(table, row) ==
    [raised |-> "none", table |-> [table EXCEPT !.rows = Append(@, row)]]

ParamTable_insert(table, row) ==
    IF row.row_id \in row_ids(table.rows) THEN [raised |-> "DuplicateRowId", table |-> table]
    ELSE [raised |-> "none", table |-> [table EXCEPT !.rows = Append(@, row)]]

ParamTable_delete(table, row_id) ==
    [table EXCEPT !.rows = SelectSeq(@, LAMBDA r : r.row_id # row_id)]

\* ------------------------------------------------ DarkSoulsGameParameters
\* A path is the sequence of its characters, so that endswith and the slices
\* of pickle() are computed on it.
DOT_DCX == <<".", "d", "c", "x">>

DOT_PARAMBND == <<".", "p", "a", "r", "a", "m", "b", "n", "d">>

DOT_PICKLE == <<".", "p", "i", "c", "k", "l", "e">>

NoPath == <<>>

GameParamPath(dcx) ==
    <<"d", "/", "G", "a", "m", "e", "P", "a", "r", "a", "m">> \o DOT_PARAMBND
        \o (IF dcx THEN DOT_DCX ELSE <<>>)

endswith(path, suffix) ==
    Len(path) >= Len(suffix) /\ SubSeq(path, Len(path) - Len(suffix) + 1, Len(path)) = suffix

\* path[:n]
first_chars(path, n) == SubSeq(path, 1, IF n < Len(path) THEN n ELSE Len(path))

\* The entries of a GameParam archive, named by their paths, in archive order.
ParamPathList == <<"Bullet.param", "Magic.param", "SpEffect.param">>

ParamPaths == { ParamPathList[n] : n \in 1..Len(ParamPathList) }

param_entry_id(path) == CHOOSE n \in 1..Len(ParamPathList) : ParamPathList[n] = path

\* Tables as stored: the rows 1..MaxRows-1 in ascending or in descending
\* order, a table of a type no schema set knows, and a table whose header
\* declares one row more than it holds.
stored_row(row_id) == [row_id |-> row_id, value |-> 0]

AscendingRows == [n \in 1..(MaxRows - 1) |-> stored_row(n)]

DescendingRows == [n \in 1..(MaxRows - 1) |-> stored_row(MaxRows - n)]

GoodTables ==
    { table_bytes("SP_EFFECT_PARAM_ST", MaxRows - 1, AscendingRows),
      table_bytes("SP_EFFECT_PARAM_ST", MaxRows - 1, DescendingRows) }

BadTables ==
    { table_bytes("UNKNOWN_ST", MaxRows - 1, AscendingRows),
      table_bytes("SP_EFFECT_PARAM_ST", MaxRows, AscendingRows) }

ParamEntryLists(tables) ==
    UNION { { [i \in 1..n |-> [id |-> param_entry_id(ParamPathList[i]), path |-> ParamPathList[i],
                               data |-> t[i]]] : t \in [1..n -> tables] } :
            n \in 0..(IF MaxEntries < Len(ParamPathList) THEN MaxEntries ELSE Len(ParamPathList)) }

NoParamBND == [dcx |-> FALSE, bnd_path |-> NoPath, entries |-> <<>>]

NoFile == [path |-> NoPath, data |-> <<>>]

NoTables == [p \in {} |-> NoTable]

NoParamCall == [op |-> "none", raised |-> "none", wrote |-> {}]

\* 'dsr' if self._game_param_bnd.dcx else 'ptd', whatever the archive holds.
paramdef_dialect_ptd(bnd) == "ptd"

paramdef_dialect(bnd) == IF bnd.dcx THEN "dsr" ELSE "ptd"

\* The loop over the archive's entries that passes over an entry it cannot decode.
RECURSIVE load_param_tables_skipping(_, _, _, _)
load_param_tables_skipping(data, bnd, n, paramdef) ==
    IF n > Len(bnd.entries) THEN [raised |-> "none", data |-> data]
    ELSE LET entry == bnd.entries[n]
             p == ParamTable_open(entry.data, paramdef)
         IN load_param_tables_skipping(IF p.raised # "none" THEN data ELSE (entry.path :> p.table) @@ data,
                                       bnd, n + 1, paramdef)

\* The loop 'for entry in self._game_param_bnd' from entry n on: every entry
\* is decoded with the one paramdef_bnd, and what ParamTable raises leaves
\* __init__. (The nickname attributes set from GAME_PARAM_INFO are other names
\* of the same tables.)
RECURSIVE load_param_tables(_, _, _, _)
load_param_tables(data, bnd, n, paramdef) ==
    IF n > Len(bnd.entries) THEN [raised |-> "none", data |-> data]
    ELSE LET entry == bnd.entries[n]
             p == ParamTable_open(entry.data, paramdef)
         IN IF p.raised # "none" THEN [raised |-> p.raised, data |-> data]
            ELSE load_param_tables((entry.path :> p.table) @@ data, bnd, n + 1, paramdef)

\* The archive a source gives: BND(path) of the file, or a BND object built
\* in memory from the same bytes, which has no bnd_path.
ParamSources == {"path", "object"}

source_bnd(source) ==
    [dcx |-> param_disk.bnd.dcx,
     bnd_path |-> IF source = "path" THEN param_disk.bnd.path ELSE NoPath,
     entries |-> param_disk.bnd.entries]

OpenParams(source) ==
    /\ param_pc = "start"
    /\ \E bnd \in {source_bnd(source)} :
        \E defs \in {PARAMDEF_BND(paramdef_dialect(bnd), paramdef_cache, paramdef_built)} :
          \E self \in {load_param_tables(NoTables, bnd, 1, defs.paramdef)} :
            /\ paramdef_cache' = defs.cache
            /\ paramdef_built' = defs.built
            /\ paramdef_requests' = [paramdef_requests EXCEPT ![defs.paramdef.dialect] = @ + 1]
            /\ IF self.raised # "none"
               THEN /\ param_pc' = "failed"
                    /\ UNCHANGED <<game_param_bnd, param_data, paramdef_bnd>>
                    /\ param_last' = [NoParamCall EXCEPT !.op = "init", !.raised = self.raised]
               ELSE /\ param_pc' = "ready"
                    /\ game_param_bnd' = bnd
                    /\ param_data' = self.data
                    /\ paramdef_bnd' = defs.paramdef.dialect
                    /\ param_last' = [NoParamCall EXCEPT !.op = "init"]
    /\ UNCHANGED <<param_disk, param_edits>>
    /\ UNCHANGED draw_vars
    /\ UNCHANGED text_vars

\* The caller's edits of one table of the parameters.
InsertRow(path, row_id) ==
    /\ param_pc = "ready"
    /\ param_edits > 0
    /\ path \in DOMAIN param_data
    /\ \E r \in {ParamTable_insert(param_data[path], [row_id |-> row_id, value |-> 1])} :
          /\ param_data' = [param_data EXCEPT ![path] = r.table]
          /\ param_last' = [op |-> "insert", raised |-> r.raised, wrote |-> {},
                            path |-> path, row_id |-> row_id]
    /\ param_edits' = param_edits - 1
    /\ UNCHANGED <<param_disk, param_pc, game_param_bnd, paramdef_bnd, schema_vars, draw_vars>>
    /\ UNCHANGED text_vars

DeleteRow(path, row_id) ==
    /\ param_pc = "ready"
    /\ param_edits > 0
    /\ path \in DOMAIN param_data
    /\ row_id \in row_ids(param_data[path].rows)
    /\ param_data' = [param_data EXCEPT ![path] = ParamTable_delete(@, row_id)]
    /\ param_last' = [op |-> "delete", raised |-> "none", wrote |-> {}, path |-> path, row_id |-> row_id]
    /\ param_edits' = param_edits - 1
    /\ UNCHANGED <<param_disk, param_pc, game_param_bnd, paramdef_bnd, schema_vars, draw_vars>>
    /\ UNCHANGED text_vars

\* update_bnd that leaves the archive as it was loaded.
update_bnd_skipped(bnd, data) == bnd

\* update_bnd that rebuilds the entry list from the last entry to the first.
update_bnd_reversed(bnd, data) ==
    LET old == bnd.entries
        packed(entry) == [entry EXCEPT !.data = ParamTable_pack(data[entry.path])]
    IN [bnd EXCEPT !.entries = [n \in 1..Len(old) |-> packed(old[Len(old) + 1 - n])]]

\* update_bnd: the data of the entry at each table's path becomes the packed table.
update_bnd(bnd, data) ==
    LET old == bnd.entries
        packed(entry) == IF entry.path \in DOMAIN data
                         THEN [entry EXCEPT !.data = ParamTable_pack(data[entry.path])]
                         ELSE entry
    IN [bnd EXCEPT !.entries = [n \in 1..Len(old) |-> packed(old[n])]]

UpdateBnd ==
    /\ param_pc = "ready"
    /\ game_param_bnd' = update_bnd(game_param_bnd, param_data)
    /\ param_last' = [NoParamCall EXCEPT !.op = "update_bnd"]
    /\ UNCHANGED <<param_disk, param_pc, param_data, paramdef_bnd, param_edits, schema_vars, draw_vars>>
    /\ UNCHANGED text_vars

\* The path pickle() writes to when it is given none: as the code slices it,
\* path[:len('.dcx')] and path[:len('.parambnd')].
pickle_path(bnd_path) ==
    LET p1 == IF endswith(bnd_path, DOT_DCX) THEN first_chars(bnd_path, Len(DOT_DCX)) ELSE bnd_path
        p2 == IF endswith(p1, DOT_PARAMBND) THEN first_chars(p1, Len(DOT_PARAMBND)) ELSE p1
    IN p2 \o DOT_PICKLE

ParamIOOutcomes == {"ok", "pickle_fails", "write_fails"}

\* pickle() as save() calls it: the files it leaves and what it raises.
pickle(files, bnd, data, io) ==
    IF bnd.bnd_path = NoPath THEN [files |-> files, raised |-> "ValueError", wrote |-> {}]
    ELSE IF io = "pickle_fails" THEN [files |-> files, raised |-> "OSError", wrote |-> {}]
    ELSE [files |-> [files EXCEPT !.pickle = [path |-> pickle_path(bnd.bnd_path), data |-> data]],
          raised |-> "none", wrote |-> {"pickle"}]

\* self._game_param_bnd.write(None): the archive file is replaced by the
\* archive's entries, or nothing is written.
BND_write(files, bnd, io) ==
    IF bnd.bnd_path = NoPath THEN [files |-> files, raised |-> "ValueError", wrote |-> {}]
    ELSE IF io = "write_fails" THEN [files |-> files, raised |-> "OSError", wrote |-> {}]
    ELSE [files |-> [files EXCEPT !.bnd = [@ EXCEPT !.entries = bnd.entries]],
          raised |-> "none", wrote |-> {"bnd"}]

\* save(): update_bnd, then pickle when auto_pickle, then the archive write.
save_params(files, bnd, data, auto_pickle, io) ==
    LET new_bnd == update_bnd(bnd, data)
        pickled == IF auto_pickle THEN pickle(files, new_bnd, data, io)
                   ELSE [files |-> files, raised |-> "none", wrote |-> {}]
        written == BND_write(pickled.files, new_bnd, io)
    IN IF pickled.raised # "none"
       THEN [bnd |-> new_bnd, files |-> pickled.files, raised |-> pickled.raised, wrote |-> pickled.wrote]
       ELSE [bnd |-> new_bnd, files |-> written.files, raised |-> written.raised,
             wrote |-> pickled.wrote \cup written.wrote]

SaveParams(auto_pickle, io) ==
    /\ param_pc = "ready"
    /\ \E r \in {save_params(param_disk, game_param_bnd, param_data, auto_pickle, io)} :
          /\ game_param_bnd' = r.bnd
          /\ param_disk' = r.files
          /\ param_last' = [op |-> "save", raised |-> r.raised, wrote |-> r.wrote,
                            auto_pickle |-> auto_pickle]
    /\ UNCHANGED <<param_pc, param_data, paramdef_bnd, param_edits, schema_vars, draw_vars>>
    /\ UNCHANGED text_vars

\* ------------------------------------------------------- DrawParamBlock
MaxOpens == 2       \* DrawParamBlock constructions per run

\* An entry's basename without '.param', split at '_': the first part is the
\* sequence of its characters (startswith('s') reads it), the others are whole.
DrawParamNames ==
    { << <<"m", "1", "0">>, "FogBank" >>, << <<"m", "1", "0">>, "1", "FogBank" >>,
      << <<"s", "1", "0">>, "LightBank" >>, << <<"m", "1", "0">>, "2", "FogBank" >>,
      << <<"m", "1", "0">> >>, << <<"s", "1", "0">>, "FogBank" >> }

\* The keys of DRAWPARAM_ALIASES; 's_LightBank' is <<"s", "LightBank">>.
DRAWPARAM_ALIASES ==
    { <<n>> : n \in {"DofBank", "EnvLightTexBank", "FogBank", "LensFlareBank", "LensFlareExBank",
                     "LightBank", "LightScatteringBank", "LodBank", "PointLightBank", "ShadowBank",
                     "ToneCorrectBank", "ToneMapBank"} }
    \cup { <<"s", "LightBank">> }

NoSlots == [b \in {} |-> <<NoTable, NoTable>>]

NoDrawCall == [op |-> "none", raised |-> "none"]

draw_param_entry(name) ==
    [name |-> name, data |-> table_bytes("SP_EFFECT_PARAM_ST", MaxRows - 1, AscendingRows)]

\* The archives opened: no entry, one entry of any name, or the two slots of
\* one table in either order; compressed or not.
DrawParamArchives ==
    { [dcx |-> d, entries |-> s] :
        d \in BOOLEAN,
        s \in {<<>>} \cup { <<draw_param_entry(n)>> : n \in DrawParamNames }
              \cup { <<draw_param_entry(<< <<"m", "1", "0">>, "FogBank" >>),
                       draw_param_entry(<< <<"m", "1", "0">>, "1", "FogBank" >>)>>,
                     <<draw_param_entry(<< <<"m", "1", "0">>, "1", "FogBank" >>),
                       draw_param_entry(<< <<"m", "1", "0">>, "FogBank" >>)>> } }

\* draw_param_slot that takes any name of three parts for slot 1.
draw_param_slot_any_middle(parts) ==
    LET prefix(basename) == IF parts[1][1] = "s" THEN <<"s">> \o basename ELSE basename
    IN IF Len(parts) = 2 THEN [raised |-> "none", slot |-> 1, basename |-> prefix(<<parts[2]>>)]
       ELSE IF Len(parts) = 3 THEN [raised |-> "none", slot |-> 2, basename |-> prefix(<<parts[3]>>)]
       ELSE [raised |-> "ValueError", slot |-> 0, basename |-> <<>>]

\* The slot and the base name that an entry's name gives, or what it raises.
draw_param_slot(parts) ==
    LET prefix(basename) == IF parts[1][1] = "s" THEN <<"s">> \o basename ELSE basename
    IN IF Len(parts) = 2 THEN [raised |-> "none", slot |-> 1, basename |-> prefix(<<parts[2]>>)]
       ELSE IF Len(parts) = 3
            THEN IF parts[2] # "1" THEN [raised |-> "ValueError", slot |-> 0, basename |-> <<>>]
                 ELSE [raised |-> "none", slot |-> 2, basename |-> prefix(<<parts[3]>>)]
       ELSE [raised |-> "ValueError", slot |-> 0, basename |-> <<>>]

\* The loop 'for entry in draw_param_bnd' from entry n on. Slot 0 of the code
\* is position 1 of the pair, slot 1 is position 2; None is NoTable.
RECURSIVE load_draw_params(_, _, _, _)
load_draw_params(data, bnd, n, paramdef) ==
    IF n > Len(bnd.entries) THEN [raised |-> "none", data |-> data]
    ELSE LET entry == bnd.entries[n]
             where == draw_param_slot(entry.name)
             p == ParamTable_open(entry.data, paramdef)
             slots == IF where.basename \in DOMAIN data THEN data[where.basename] ELSE <<NoTable, NoTable>>
         IN IF where.raised # "none" THEN [raised |-> where.raised, data |-> data]
            ELSE IF p.raised # "none" THEN [raised |-> p.raised, data |-> data]
            ELSE IF where.basename \notin DRAWPARAM_ALIASES THEN [raised |-> "KeyError", data |-> data]
            ELSE load_draw_params((where.basename :> [slots EXCEPT ![where.slot] = p.table]) @@ data,
                                  bnd, n + 1, paramdef)

\* DrawParamBlock(draw_param_bnd) on a BND object, or on the path of its file:
\* draw_param_bnd.dcx is read before a path is turned into a BND.
OpenDrawParamBlock(source, bnd) ==
    /\ draw_opens < MaxOpens
    /\ draw_opens' = draw_opens + 1
    /\ IF source = "path"
       THEN /\ draw_last' = [op |-> "init", raised |-> "AttributeError", source |-> source, bnd |-> bnd]
            /\ draw_data' = NoSlots
            /\ UNCHANGED schema_vars
       ELSE \E defs \in {PARAMDEF_BND(paramdef_dialect(bnd), paramdef_cache, paramdef_built)} :
              \E self \in {load_draw_params(NoSlots, bnd, 1, defs.paramdef)} :
                /\ paramdef_cache' = defs.cache
                /\ paramdef_built' = defs.built
                /\ paramdef_requests' = [paramdef_requests EXCEPT ![defs.paramdef.dialect] = @ + 1]
                /\ draw_last' = [op |-> "init", raised |-> self.raised, source |-> source, bnd |-> bnd]
                /\ draw_data' = IF self.raised = "none" THEN self.data ELSE NoSlots
    /\ UNCHANGED <<param_disk, param_pc, game_param_bnd, param_data, paramdef_bnd, param_edits, param_last>>
    /\ UNCHANGED text_vars

NoParamFiles == [bnd |-> [dcx |-> FALSE, path |-> NoPath, entries |-> <<>>], pickle |-> NoFile]

ParamsNotConstructed ==
    /\ param_pc = "start"
    /\ game_param_bnd = NoParamBND
    /\ param_data = NoTables
    /\ paramdef_bnd = "none"
    /\ param_last = NoParamCall
    /\ paramdef_cache = {}
    /\ paramdef_built = [d \in Dialects |-> 0]
    /\ paramdef_requests = [d \in Dialects |-> 0]
    /\ draw_data = NoSlots
    /\ draw_opens = 0
    /\ draw_last = NoDrawCall

NotConstructed ==
    /\ pc = "start"
    /\ item_msgbnd = NoBND
    /\ menu_msgbnd = NoBND
    /\ categories = NoDict
    /\ is_patch = {}
    /\ is_menu = NoFlags
    /\ edits = 0
    /\ last = NoCall

\* No parameter archive is in use.
NoParameters ==
    /\ param_disk = NoParamFiles
    /\ param_edits = 0
    /\ ParamsNotConstructed

\* No language folder is in use.
NoLanguageFolder ==
    /\ disk = Folder(<<>>, 0, FALSE, FALSE)
    /\ NotConstructed

\* Opening and saving any folder of up to MaxEntries tables.
Init ==
    /\ \E s \in EntryLists, d1 \in BOOLEAN, d2 \in BOOLEAN :
         \E k \in 0..Len(s) : disk = Folder(s, k, d1, d2)
    /\ NotConstructed
    /\ NoParameters

Next ==
    \/ Open
    \/ \E sp \in BOOLEAN, io \in IOOutcomes : Save(sp, io)

Spec == Init /\ [][Next]_vars

\* Opening, editing and saving a folder that holds a base table and its Patch table.
InitEdit ==
    /\ \E s \in PairLists, k \in 0..2 : disk = Folder(s, k, FALSE, FALSE)
    /\ NotConstructed
    /\ NoParameters

NextEdit ==
    \/ Open
    \/ \E c \in DOMAIN categories, i \in Indices, t \in Texts : SetText(c, i, t)
    \/ \E sp \in BOOLEAN, io \in IOOutcomes : Save(sp, io)

SpecEdit == InitEdit /\ [][NextEdit]_vars

\* Opening a folder that holds the three tables of the goods, and deleting item text.
ItemFolder(names, summaries, descriptions) ==
    LET table(id, S) == [id |-> id, data |-> FMG_pack([i \in S |-> "a"])]
    IN Folder(<<table(index_of_name(<<"Good", "Names">>), names),
                table(index_of_name(<<"Good", "Summaries">>), summaries),
                table(index_of_name(<<"Good", "Descriptions">>), descriptions)>>, 3, FALSE, FALSE)

InitItem ==
    /\ \E n \in StoredIndexSets, s \in StoredIndexSets, d \in StoredIndexSets : disk = ItemFolder(n, s, d)
    /\ NotConstructed
    /\ NoParameters

NextItem ==
    \/ Open
    \/ \E i \in Indices, t \in ItemTypes : DeleteItemText(i, t)
    \/ \E i \in Indices : AddItemText(i, "good", "b", "a", "b")
    \/ \E i \in Indices, k \in TextDictKeys, patch \in BOOLEAN : ChangeItemText(k, i, "good", patch)
    \/ \E i \in Indices : GetAllItemText(i, "good")

SpecItem == InitItem /\ [][NextItem]_vars

\* Opening a folder that holds the goods' Names table, its Patch table and
\* the Summaries and Descriptions tables, then up to MaxEdits item text or
\* find calls, and saves.
OverlayFolder(names, patch) ==
    LET table(id, S) == [id |-> id, data |-> FMG_pack([i \in S |-> "a"])]
    IN Folder(<<table(index_of_name(<<"Good", "Names">>), names),
                table(index_of_name(<<"Good", "Names", PATCH>>), patch),
                table(index_of_name(<<"Good", "Summaries">>), names \cup patch),
                table(index_of_name(<<"Good", "Descriptions">>), names \cup patch)>>, 4, FALSE, FALSE)

InitOverlay ==
    /\ \E n \in StoredIndexSets, p \in StoredIndexSets : disk = OverlayFolder(n, p)
    /\ NotConstructed
    /\ NoParameters

NextOverlay ==
    \/ Open
    \/ edits < MaxEdits /\ \E i \in Indices : DeleteItemText(i, "good")
    \/ edits < MaxEdits /\ \E i \in Indices : AddItemText(i, "good", "b", "a", "b")
    \/ edits < MaxEdits /\ \E i \in Indices, k \in TextDictKeys, patch \in BOOLEAN :
                              ChangeItemText(k, i, "good", patch)
    \/ edits < MaxEdits /\ \E replace_with \in {"None", "b"},
                              text_category \in {<<>>, <<"Good", "Names">>, <<"Subtitles">>} :
                              Find("a", replace_with, text_category)
    \/ \E sp \in BOOLEAN, io \in IOOutcomes : Save(sp, io)

SpecOverlay == InitOverlay /\ [][NextOverlay]_vars

\* Opening a parameter archive of up to MaxEntries tables, editing and saving it.
ParamFiles(dcx, entries) ==
    [bnd |-> [dcx |-> dcx, path |-> GameParamPath(dcx), entries |-> entries], pickle |-> NoFile]

InitParams ==
    /\ \E s \in ParamEntryLists(GoodTables \cup BadTables), dcx \in BOOLEAN : param_disk = ParamFiles(dcx, s)
    /\ param_edits = MaxEdits
    /\ ParamsNotConstructed
    /\ NoLanguageFolder

NextParams ==
    \/ \E source \in ParamSources : OpenParams(source)
    \/ \E p \in ParamPaths, r \in RowIds : InsertRow(p, r)
    \/ \E p \in ParamPaths, r \in RowIds : DeleteRow(p, r)
    \/ UpdateBnd
    \/ \E ap \in BOOLEAN, io \in ParamIOOutcomes : SaveParams(ap, io)

SpecParams == InitParams /\ [][NextParams]_vars

\* One table that starts empty or as stored, and up to MaxRows edits of it.
TableFiles(rows) ==
    ParamFiles(FALSE, <<[id |-> param_entry_id("SpEffect.param"), path |-> "SpEffect.param",
                         data |-> table_bytes("SP_EFFECT_PARAM_ST", Len(rows), rows)]>>)

InitTable ==
    /\ \E rows \in {<<>>, AscendingRows, DescendingRows} : param_disk = TableFiles(rows)
    /\ param_edits = MaxRows
    /\ ParamsNotConstructed
    /\ NoLanguageFolder

NextTable ==
    \/ OpenParams("path")
    \/ \E r \in RowIds : InsertRow("SpEffect.param", r)
    \/ \E r \in RowIds : DeleteRow("SpEffect.param", r)
    \/ UpdateBnd

SpecTable == InitTable /\ [][NextTable]_vars

\* One process that opens a parameter archive and up to MaxOpens DrawParam
\* archives, in any order.
InitSchema ==
    /\ \E dcx \in BOOLEAN : param_disk = ParamFiles(dcx, TableFiles(AscendingRows).bnd.entries)
    /\ param_edits = 0
    /\ ParamsNotConstructed
    /\ NoLanguageFolder

NextSchema ==
    \/ \E source \in ParamSources : OpenParams(source)
    \/ \E source \in ParamSources, bnd \in DrawParamArchives : OpenDrawParamBlock(source, bnd)

SpecSchema == InitSchema /\ [][NextSchema]_vars

\* ------------------------------------------------- reading the archives
\* The FMG stored under a name in the folder's archives, for the properties below.
folder_ids(folder) == entry_ids(folder.item) \cup entry_ids(folder.menu)

has_fmg(folder, name) == has_name(name) /\ index_of_name(name) \in folder_ids(folder)

stored_fmg(folder, name) ==
    LET id == index_of_name(name)
    IN FMG_entries(IF id \in entry_ids(folder.item) THEN entries_by_id(folder.item, id).data
                   ELSE entries_by_id(folder.menu, id).data)

PatchNames == { MSGBND_INDEX_NAMES[id] : id \in { k \in DOMAIN MSGBND_INDEX_NAMES : endswith_Patch(MSGBND_INDEX_NAMES[k]) } }

JustOpened == pc = "ready" /\ last.op = "init"

SaveDone == last.op = "save" /\ last.raised = "none"

\* ------------------------------------------------------------ properties

\* C1: opening a folder and saving it at once with separate_patch=True writes
\* back, for every mergeable category with a base and a Patch table on disjoint
\* indices, the base table's entries to the base FMG and the Patch table's
\* entries to the Patch FMG.
C1_SplitRestoresTables ==
    [][ (JustOpened /\ last'.op = "save" /\ last'.separate_patch /\ last'.raised = "none")
        => \A p \in PatchNames \cap CAN_MERGE_PATCH :
             (/\ has_fmg(disk, p) /\ has_fmg(disk, strip_Patch(p))
              /\ DOMAIN stored_fmg(disk, p) \cap DOMAIN stored_fmg(disk, strip_Patch(p)) = {})
             => /\ has_fmg(disk', p) /\ has_fmg(disk', strip_Patch(p))
                /\ stored_fmg(disk', p) = stored_fmg(disk, p)
                /\ stored_fmg(disk', strip_Patch(p)) = stored_fmg(disk, strip_Patch(p)) ]_vars

C3_NeverMergeSplit ==
    SaveDone =>
        \A c \in CANNOT_MERGE_PATCH \cap DOMAIN categories :
            (has_fmg(disk, c) /\ has_fmg(disk, plus_Patch(c))) =>
                \A i \in DOMAIN categories[c] :
                    IF <<c, i>> \in is_patch
                    THEN /\ i \in DOMAIN stored_fmg(disk, plus_Patch(c))
                         /\ i \notin DOMAIN stored_fmg(disk, c)
                    ELSE /\ i \in DOMAIN stored_fmg(disk, c)
                         /\ i \notin DOMAIN stored_fmg(disk, plus_Patch(c))

\* C4: a save with separate_patch=False leaves, in every archive it writes, the
\* Patch entry of every never-merge category that was opened with one, next to
\* the base entry: the category stays stored as two resources.
C4_NeverMergeKeepsPatchEntry ==
    (last.op = "save" /\ ~last.separate_patch) =>
        \A c \in CANNOT_MERGE_PATCH :
            /\ (plus_Patch(c) \in DOMAIN is_menu /\ (IF is_menu[plus_Patch(c)] THEN "menu" ELSE "item") \in last.wrote)
                 => index_of_name(plus_Patch(c)) \in
                        entry_ids(IF is_menu[plus_Patch(c)] THEN disk.menu ELSE disk.item)
            /\ (plus_Patch(c) \in DOMAIN is_menu /\ c \in DOMAIN is_menu /\ last.wrote = {"item", "menu"})
                 => index_of_name(c) \in entry_ids(IF is_menu[c] THEN disk.menu ELSE disk.item)

C4_Witness ==
    /\ SaveDone /\ ~last.separate_patch /\ edits > 0
    /\ \E c \in CANNOT_MERGE_PATCH \cap DOMAIN categories :
         /\ plus_Patch(c) \in DOMAIN is_menu /\ c \in DOMAIN is_menu
         /\ \E i \in DOMAIN categories[c] : categories[c][i] = ""

\* C5: a save with separate_patch=False writes, for every mergeable category,
\* all of the category's entries into the base FMG, and no archive it writes
\* has an entry for the category's Patch FMG.
C5_MergeableMerged ==
    (last.op = "save" /\ ~last.separate_patch) =>
        \A p \in PatchNames \cap CAN_MERGE_PATCH :
            /\ \A a \in last.wrote : index_of_name(p) \notin entry_ids(disk[a])
            /\ (strip_Patch(p) \in DOMAIN categories /\ last.raised = "none")
                 => /\ has_fmg(disk, strip_Patch(p))
                    /\ stored_fmg(disk, strip_Patch(p)) = categories[strip_Patch(p)]

C5_Witness ==
    /\ SaveDone /\ ~last.separate_patch
    /\ \E p \in PatchNames \cap CAN_MERGE_PATCH :
         /\ p \in DOMAIN is_menu
         /\ strip_Patch(p) \in DOMAIN categories
         /\ \E i, j \in DOMAIN categories[strip_Patch(p)] :
              <<strip_Patch(p), i>> \in is_patch /\ <<strip_Patch(p), j>> \notin is_patch

\* C6: an index present in a base table and in its Patch table has the Patch
\* table's text in the merged category after open.
C6_PatchTextWins ==
    JustOpened =>
        \A p \in PatchNames : (has_fmg(disk, p) /\ has_fmg(disk, strip_Patch(p))) =>
            \A i \in DOMAIN stored_fmg(disk, p) \cap DOMAIN stored_fmg(disk, strip_Patch(p)) :
                categories[strip_Patch(p)][i] = stored_fmg(disk, p)[i]

\* C7: a save that raises has written nothing: both files are as before the call.
C7_FailedSaveWritesNothing ==
    [][ (last'.op = "save" /\ last'.raised # "none") => disk' = disk ]_vars

\* C8: a save that raises leaves self.item_msgbnd and self.menu_msgbnd as they
\* were, and a save that succeeds makes them the archives it has written.
C8_ArchivesReplacedOnSuccessOnly ==
    /\ [][ (last'.op = "save" /\ last'.raised # "none")
           => (item_msgbnd' = item_msgbnd /\ menu_msgbnd' = menu_msgbnd) ]_vars
    /\ [](SaveDone => (item_msgbnd = disk.item /\ menu_msgbnd = disk.menu))

C8_Witness ==
    /\ last.op = "save" /\ last.raised = "OSError" /\ last.wrote = {"item"}
    /\ disk.item # item_msgbnd

\* C9: once __init__ has run on a folder holding an entry with an unmapped ID,
\* it has raised and there is no MSGDirectory: no category, no archive.
C9_UnmappedIdFailsOpen ==
    (pc # "start" /\ \E id \in folder_ids(disk) : id \notin DOMAIN MSGBND_INDEX_NAMES) =>
        /\ pc = "failed" /\ last.raised = "ValueError"
        /\ categories = NoDict /\ is_patch = {} /\ item_msgbnd = NoBND /\ menu_msgbnd = NoBND

C9_Witness ==
    /\ pc = "failed"
    /\ disk.item.dcx = disk.menu.dcx
    /\ Len(disk.item.entries \o disk.menu.entries) > 1
    /\ (disk.item.entries \o disk.menu.entries)[1].id \in DOMAIN MSGBND_INDEX_NAMES

C12_OneSchemaSet ==
    param_pc = "ready" =>
        LET dialect == IF game_param_bnd.dcx THEN "dsr" ELSE "ptd"
        IN /\ paramdef_bnd = dialect
           /\ DOMAIN param_data = { game_param_bnd.entries[n].path : n \in 1..Len(game_param_bnd.entries) }
           /\ \A p \in DOMAIN param_data : param_data[p].dialect = dialect

C12_Witness ==
    /\ param_pc = "ready" /\ game_param_bnd.dcx
    /\ Cardinality(DOMAIN param_data) >= 2
    /\ \A p \in DOMAIN param_data : param_data[p].dialect = "dsr"

C14_SaveWritesPackedTables ==
    (param_last.op = "save" /\ "bnd" \in param_last.wrote) =>
        /\ { param_disk.bnd.entries[n].path : n \in 1..Len(param_disk.bnd.entries) } = DOMAIN param_data
        /\ \A n \in 1..Len(param_disk.bnd.entries) :
             param_disk.bnd.entries[n].data = ParamTable_pack(param_data[param_disk.bnd.entries[n].path])

C14_Witness ==
    /\ param_last.op = "save" /\ "bnd" \in param_last.wrote
    /\ \E n \in 1..Len(param_disk.bnd.entries) :
         \E i \in 1..Len(param_disk.bnd.entries[n].data.rows) :
            param_disk.bnd.entries[n].data.rows[i].value = 1

\* C15: no step on constructed parameters (an edit of a table, update_bnd,
\* save) changes the number of entries of the archive, their order, their IDs
\* or their paths.
C15_UpdateBndKeepsEntries ==
    [][ param_pc = "ready" =>
          /\ Len(game_param_bnd'.entries) = Len(game_param_bnd.entries)
          /\ \A n \in 1..Len(game_param_bnd.entries) :
               /\ game_param_bnd'.entries[n].id = game_param_bnd.entries[n].id
               /\ game_param_bnd'.entries[n].path = game_param_bnd.entries[n].path ]_vars

C15_Witness ==
    /\ param_last.op = "update_bnd" /\ param_edits < MaxEdits
    /\ Len(game_param_bnd.entries) >= 2
    /\ \A n \in 1..Len(game_param_bnd.entries) :
         /\ game_param_bnd.entries[n].path = param_disk.bnd.entries[n].path
         /\ game_param_bnd.entries[n].data # param_disk.bnd.entries[n].data

\* C16: when an entry of the archive cannot be decoded with the archive's
\* dialect, construction fails with the error of the first such entry and
\* nothing is constructed: no table is held, not those decoded before the
\* failure either; when every entry decodes, construction succeeds.
C16_DecodeFailureFailsOpen ==
    param_last.op = "init" =>
        LET entries == param_disk.bnd.entries
            paramdef == [dialect |-> IF param_disk.bnd.dcx THEN "dsr" ELSE "ptd",
                         param_types |-> KnownParamTypes]
            bad == { n \in 1..Len(entries) : ParamTable_open(entries[n].data, paramdef).raised # "none" }
        IN IF bad = {} THEN param_pc = "ready" /\ param_last.raised = "none"
           ELSE /\ param_pc = "failed"
                /\ param_data = NoTables /\ game_param_bnd = NoParamBND
                /\ LET first == CHOOSE n \in bad : \A k \in bad : n <= k
                   IN param_last.raised = ParamTable_open(entries[first].data, paramdef).raised

C16_Witness ==
    /\ param_pc = "failed" /\ param_last.raised \in {"UnknownSchema", "RowCountMismatch"}
    /\ Len(param_disk.bnd.entries) >= 2
    /\ param_disk.bnd.entries[1].data \in GoodTables
    /\ param_data = NoTables

\* C17: a save that raises, in pickle() or in the archive write, leaves the
\* pickle file and the archive file as they were.
C17_FailedParamSaveWritesNothing ==
    [][ (param_pc = "ready" /\ param_last'.op = "save" /\ param_last'.raised # "none")
        => param_disk' = param_disk ]_vars

C19_PackAscending ==
    param_last.op = "update_bnd" =>
        \A n \in 1..Len(game_param_bnd.entries) :
            LET rows == game_param_bnd.entries[n].data.rows
                held == param_data[game_param_bnd.entries[n].path].rows
            IN /\ Len(rows) = Len(held)
               /\ { rows[i] : i \in 1..Len(rows) } = { held[i] : i \in 1..Len(held) }
               /\ \A i, j \in 1..Len(rows) : i < j => rows[i].row_id < rows[j].row_id

C19_Witness ==
    /\ param_last.op = "update_bnd"
    /\ \E n \in 1..Len(game_param_bnd.entries) :
         LET rows == game_param_bnd.entries[n].data.rows
             held == param_data[game_param_bnd.entries[n].path].rows
         IN /\ Len(held) = MaxRows /\ held[1].row_id = MaxRows /\ held[2].row_id = 1
            /\ \A i \in 1..MaxRows : held[i].value = 1
            /\ \A i \in 1..MaxRows : rows[i].row_id = i

\* C20: an insert of a row_id that the table holds raises DuplicateRowId and
\* leaves every table as it was, an insert of any other row_id raises
\* nothing, and no table ever holds two rows of one row_id.
C20_DuplicateInsertRejected ==
    /\ [][ (param_pc = "ready" /\ param_edits' = param_edits - 1 /\ param_last'.op = "insert")
           => IF param_last'.row_id \in row_ids(param_data[param_last'.path].rows)
              THEN param_last'.raised = "DuplicateRowId" /\ param_data' = param_data
              ELSE param_last'.raised = "none" ]_vars
    /\ [](\A p \in DOMAIN param_data :
            \A i, j \in 1..Len(param_data[p].rows) :
               i # j => param_data[p].rows[i].row_id # param_data[p].rows[j].row_id)

C20_Witness ==
    /\ param_last.op = "insert" /\ param_last.raised = "DuplicateRowId"
    /\ Len(param_data[param_last.path].rows) = MaxRows
    /\ param_edits = 0

\* C21: add_item_text on an index that the goods' Names category holds raises
\* and leaves every category as it was; on an index that Names does not hold
\* it raises nothing, leaves the given name, summary and description under
\* the index in Names, Summaries and Descriptions, and changes no other text.
C21_AddItemText ==
    [][ \A i \in Indices :
          (/\ pc = "ready" /\ edits' = edits + 1
           /\ last'.op = "add_item_text" /\ last'.index = i
           /\ resolve_item_type(last'.item_type) = "Good")
          => IF i \in DOMAIN categories[<<"Good", "Names">>]
             THEN /\ last'.raised # "none"
                  /\ categories' = categories
             ELSE /\ last'.raised = "none"
                  /\ DOMAIN categories' = DOMAIN categories
                  /\ categories'[<<"Good", "Names">>][i] = last'.name
                  /\ categories'[<<"Good", "Summaries">>][i] = last'.summary
                  /\ categories'[<<"Good", "Descriptions">>][i] = last'.description
                  /\ \A c \in DOMAIN categories :
                       /\ DOMAIN categories'[c] \subseteq DOMAIN categories[c] \cup {i}
                       /\ \A k \in DOMAIN categories[c] \ {i} :
                            k \in DOMAIN categories'[c] /\ categories'[c][k] = categories[c][k] ]_vars

C21_Witness ==
    /\ last.op = "add_item_text" /\ last.raised = "none"
    /\ categories[<<"Good", "Names">>][last.index] = "b"
    /\ categories[<<"Good", "Summaries">>][last.index] = "a"
    /\ categories[<<"Good", "Descriptions">>][last.index] = "b"
    /\ \E i \in DOMAIN categories[<<"Good", "Names">>] : i # last.index

\* C22 as stated: a DrawParamBlock constructed from an archive whose entry
\* names all have two parts, or three parts with the middle part '1', holds
\* every entry's table in slot 0 (two parts) or slot 1 (three parts) of the
\* table named by the last part, 's_'-prefixed when the first part starts with
\* 's', and no other table; construction from any other archive raises.
C22_DrawParamSlots ==
    (draw_last.op = "init" /\ draw_last.source = "object") =>
        LET entries == draw_last.bnd.entries
            accepted(parts) == Len(parts) = 2 \/ (Len(parts) = 3 /\ parts[2] = "1")
            slot(parts) == IF Len(parts) = 2 THEN 1 ELSE 2
            table(parts) == (IF parts[1][1] = "s" THEN <<"s">> ELSE <<>>) \o <<parts[Len(parts)]>>
        IN IF \A n \in 1..Len(entries) : accepted(entries[n].name)
           THEN /\ draw_last.raised = "none"
                /\ DOMAIN draw_data = { table(entries[n].name) : n \in 1..Len(entries) }
                /\ \A n \in 1..Len(entries) : draw_data[table(entries[n].name)][slot(entries[n].name)] # NoTable
                /\ \A t \in DOMAIN draw_data : \A k \in 1..2 :
                     draw_data[t][k] # NoTable
                        => \E n \in 1..Len(entries) : table(entries[n].name) = t /\ slot(entries[n].name) = k
           ELSE draw_last.raised # "none" /\ draw_data = NoSlots

\* C22 amended: as C22, for the archives whose entry names also all give a
\* table name that is a key of DRAWPARAM_ALIASES; construction from an
\* archive with an entry whose table name is not such a key raises as well.
C22_DrawParamSlotsOfKnownTables ==
    (draw_last.op = "init" /\ draw_last.source = "object") =>
        LET entries == draw_last.bnd.entries
            slot(parts) == IF Len(parts) = 2 THEN 1 ELSE 2
            table(parts) == (IF parts[1][1] = "s" THEN <<"s">> ELSE <<>>) \o <<parts[Len(parts)]>>
            accepted(parts) == /\ Len(parts) = 2 \/ (Len(parts) = 3 /\ parts[2] = "1")
                               /\ table(parts) \in DRAWPARAM_ALIASES
        IN IF \A n \in 1..Len(entries) : accepted(entries[n].name)
           THEN /\ draw_last.raised = "none"
                /\ DOMAIN draw_data = { table(entries[n].name) : n \in 1..Len(entries) }
                /\ \A n \in 1..Len(entries) : draw_data[table(entries[n].name)][slot(entries[n].name)] # NoTable
                /\ \A t \in DOMAIN draw_data : \A k \in 1..2 :
                     draw_data[t][k] # NoTable
                        => \E n \in 1..Len(entries) : table(entries[n].name) = t /\ slot(entries[n].name) = k
           ELSE draw_last.raised # "none" /\ draw_data = NoSlots

C22_Witness ==
    /\ draw_last.op = "init" /\ draw_last.raised = "none"
    /\ Len(draw_last.bnd.entries) = 2
    /\ <<"FogBank">> \in DOMAIN draw_data
    /\ draw_data[<<"FogBank">>][1] # NoTable /\ draw_data[<<"FogBank">>][2] # NoTable

\* C23: a save that pickles writes the pickle file at the archive's path with
\* a trailing '.dcx' and then a trailing '.parambnd' removed and '.pickle'
\* appended ('d/GameParam.parambnd.dcx' gives 'd/GameParam.pickle'); when the
\* archive has no path the pickling raises ValueError and writes nothing.
C23_PicklePath ==
    (param_last.op = "save" /\ param_last.auto_pickle) =>
        LET without(path, suffix) ==
                IF endswith(path, suffix) THEN SubSeq(path, 1, Len(path) - Len(suffix)) ELSE path
            expected == without(without(game_param_bnd.bnd_path, DOT_DCX), DOT_PARAMBND) \o DOT_PICKLE
        IN IF game_param_bnd.bnd_path = NoPath
           THEN param_last.raised = "ValueError" /\ param_last.wrote = {}
           ELSE "pickle" \in param_last.wrote => param_disk.pickle.path = expected

\* C24: a save that follows a successful save, whatever separate_patch the
\* two are given, does not fail on a missing archive entry: in particular
\* save(separate_patch=True) after a successful save(separate_patch=False)
\* still finds every Patch entry it updates.
C24_SaveAfterSaveFindsEntries ==
    [][ (pc = "ready" /\ SaveDone /\ last'.op = "save") => last'.raised # "KeyError" ]_vars

\* C25: a call of save, whether it succeeds or raises and whatever
\* separate_patch it is given, leaves categories and _is_patch as they were.
C25_SaveKeepsCategories ==
    [][ (pc = "ready" /\ edits' = edits /\ last'.op = "save")
            => categories' = categories /\ is_patch' = is_patch ]_vars

C25_Witness ==
    /\ SaveDone /\ last.separate_patch
    /\ \E pair \in is_patch : pair[2] \in DOMAIN categories[pair[1]]
    /\ \E n \in DOMAIN categories : \E i \in DOMAIN categories[n] : <<n, i>> \notin is_patch

\* C26: when the three tables of the goods hold the same indices in the
\* folder that was opened, the Names, Summaries and Descriptions categories
\* hold the same indices after any sequence of add_item_text,
\* delete_item_text and change_item_text, and get_all_item_text raises for
\* no index.
C26_ItemIndexSetsAgree ==
    LET stored(kind) == DOMAIN stored_fmg(disk, <<"Good", kind>>)
        held(kind) == DOMAIN categories[<<"Good", kind>>]
    IN (pc = "ready" /\ stored("Names") = stored("Summaries") /\ stored("Names") = stored("Descriptions"))
          => /\ held("Names") = held("Summaries") /\ held("Names") = held("Descriptions")
             /\ \A i \in Indices : get_all_item_text(categories, i, "good").raised = "none"

\* C27: _is_patch is fixed when the directory is opened: no call of
\* add_item_text, delete_item_text, change_item_text (patch False or True),
\* find or save changes it; every pair of it names an index that its category
\* holds; and a successful save with separate_patch=True writes every entry
\* that is not of Patch origin, the ones created after open among them, to
\* the base table.
C27_IsPatchFixedAtOpen ==
    /\ [][ pc = "ready" => is_patch' = is_patch ]_vars
    /\ [](pc = "ready" =>
            \A pair \in is_patch :
                pair[1] \in DOMAIN categories /\ pair[2] \in DOMAIN categories[pair[1]])
    /\ []((pc = "ready" /\ SaveDone /\ last.separate_patch) =>
            \A n \in DOMAIN categories : \A i \in DOMAIN categories[n] :
                <<n, i>> \notin is_patch
                    => /\ has_fmg(disk, n)
                       /\ i \in DOMAIN stored_fmg(disk, n)
                       /\ stored_fmg(disk, n)[i] = categories[n][i])

\* An index added after open (one item text call, leaving the texts that
\* only add_item_text gives) and then written by a split save, beside a
\* pair of Patch origin.
C27_Witness ==
    /\ pc = "ready" /\ SaveDone /\ last.separate_patch /\ edits = 1
    /\ is_patch # {}
    /\ \E i \in Indices :
          /\ <<<<"Good", "Names">>, i>> \notin is_patch
          /\ i \in DOMAIN categories[<<"Good", "Names">>]
          /\ categories[<<"Good", "Names">>][i] = "b"
          /\ categories[<<"Good", "Summaries">>][i] = "a"
          /\ categories[<<"Good", "Descriptions">>][i] = "b"
          /\ stored_fmg(disk, <<"Good", "Names">>)[i] = "b"

\* C28: after a successful save with separate_patch=True, the Patch table
\* written for a category holds exactly the category's entries of Patch
\* origin whose text is not empty; when all of them have been emptied it
\* holds no text.
C28_SplitPatchTable ==
    (pc = "ready" /\ SaveDone /\ last.separate_patch) =>
        \A n \in DOMAIN categories :
            has_fmg(disk, plus_Patch(n)) =>
                LET kept == { i \in DOMAIN categories[n] : <<n, i>> \in is_patch /\ categories[n][i] # "" }
                IN stored_fmg(disk, plus_Patch(n)) = [i \in kept |-> categories[n][i]]

\* C29: every Patch table that was loaded is of a mergeable category or of
\* a never-merge category and not of both, and after a successful save with
\* separate_patch=False its archive entry is absent when mergeable and holds
\* exactly the category's non-empty entries of Patch origin when never-merge,
\* so that none is written with the data read at open beside a base table
\* that holds its entries.
C29_MergedSavePatchEntries ==
    (pc = "ready" /\ SaveDone /\ ~last.separate_patch) =>
        \A p \in { q \in DOMAIN is_menu : endswith_Patch(q) } :
            LET n == strip_Patch(p)
                kept == { i \in DOMAIN categories[n] : <<n, i>> \in is_patch /\ categories[n][i] # "" }
            IN /\ (p \in CAN_MERGE_PATCH) # (n \in CANNOT_MERGE_PATCH)
               /\ p \in CAN_MERGE_PATCH => ~has_fmg(disk, p)
               /\ n \in CANNOT_MERGE_PATCH =>
                     has_fmg(disk, p) /\ stored_fmg(disk, p) = [i \in kept |-> categories[n][i]]

====
